---------------------------- MODULE Spec2Model ----------------------------
(***************************************************************************)
(* Model of the kartapp station map: the StationMap component (station     *)
(* normalisation, type filter, marker rendering, debounced place search)   *)
(* and the two server proxies (stations, geocode).                         *)
(*                                                                         *)
(* JavaScript strings are sequences of one-character strings, so that      *)
(* trim(), toLowerCase(), replace() and Number() are computed and not      *)
(* assumed.  JSON values are tagged records.                               *)
(***************************************************************************)
EXTENDS Integers, Sequences, FiniteSets, TLC

(***************************************************************************)
(* Bounds of the model.                                                    *)
(***************************************************************************)
MaxStations == 2
MaxInputs == 3
MaxTime == 6

(***************************************************************************)
(* JavaScript strings.                                                     *)
(***************************************************************************)
UpperChars == <<"A","B","C","D","E","F","G","H","I","J","K","L","M",
                "N","O","P","Q","R","S","T","U","V","W","X","Y","Z">>
LowerChars == <<"a","b","c","d","e","f","g","h","i","j","k","l","m",
                "n","o","p","q","r","s","t","u","v","w","x","y","z">>
DigitChars == <<"0","1","2","3","4","5","6","7","8","9">>
WhiteSpace == {" ", "\t", "\n"}

\* String.prototype.toLowerCase, one character
LowerChar(c) ==
  IF \E i \in 1..26 : UpperChars[i] = c
  THEN LowerChars[CHOOSE i \in 1..26 : UpperChars[i] = c]
  ELSE c

\* String.prototype.toLowerCase
toLowerCase(s) == [i \in 1..Len(s) |-> LowerChar(s[i])]

\* String.prototype.trim: drops the leading and trailing white space
trim(s) ==
  LET keep == {i \in 1..Len(s) : s[i] \notin WhiteSpace}
  IN  IF keep = {} THEN <<>>
      ELSE LET lo == CHOOSE i \in keep : \A j \in keep : i <= j
               hi == CHOOSE i \in keep : \A j \in keep : j <= i
           IN  SubSeq(s, lo, hi)

\* String.prototype.replace(',', '.'): a string pattern replaces the FIRST match only
replaceComma(s) ==
  LET hits == {i \in 1..Len(s) : s[i] = ","}
  IN  IF hits = {} THEN s
      ELSE LET k == CHOOSE i \in hits : \A j \in hits : i <= j
           IN  [i \in 1..Len(s) |-> IF i = k THEN "." ELSE s[i]]

(***************************************************************************)
(* JavaScript numbers.  A finite number is a decimal m * 10^(-e) with the  *)
(* trailing zeros of the fraction removed; NaN and +-Infinity are values   *)
(* of their own.                                                           *)
(***************************************************************************)
NaN      == [t |-> "nan"]
Infinity == [t |-> "inf"]

RECURSIVE Reduce(_, _)
Reduce(m, e) ==
  IF e > 0 /\ m % 10 = 0 THEN Reduce(m \div 10, e - 1) ELSE [t |-> "num", m |-> m, e |-> e]

Num(m, e) == Reduce(m, e)

IsDigit(c) == \E i \in 1..10 : DigitChars[i] = c
DigitVal(c) == (CHOOSE i \in 1..10 : DigitChars[i] = c) - 1

RECURSIVE DigitsVal(_)
DigitsVal(s) ==
  IF s = <<>> THEN 0 ELSE 10 * DigitsVal(SubSeq(s, 1, Len(s) - 1)) + DigitVal(s[Len(s)])

STR_Infinity == <<"I","n","f","i","n","i","t","y">>

\* An unsigned StrDecimalLiteral without exponent: digits, at most one point,
\* at least one digit; or the word Infinity.
UnsignedToNumber(s) ==
  IF s = STR_Infinity THEN Infinity
  ELSE LET dots == {i \in 1..Len(s) : s[i] = "."}
           digs == {i \in 1..Len(s) : IsDigit(s[i])}
       IN  IF digs = {} \/ Cardinality(dots) > 1
              \/ dots \cup digs # 1..Len(s)
           THEN NaN
           ELSE IF dots = {} THEN Num(DigitsVal(s), 0)
           ELSE LET d == CHOOSE i \in dots : TRUE
                IN  Num(DigitsVal(SubSeq(s, 1, d - 1) \o SubSeq(s, d + 1, Len(s))),
                        Len(s) - d)

Negate(v) == IF v.t = "num" THEN [v EXCEPT !.m = 0 - v.m] ELSE v

\* Number(string): white space is trimmed, the empty string is 0, a signed
\* decimal literal is its value, anything else is NaN.  (Exponents and the
\* 0x/0o/0b forms are not among the strings of this model.)
StringToNumber(s) ==
  LET u == trim(s)
  IN  IF u = <<>> THEN Num(0, 0)
      ELSE IF u[1] = "-" THEN Negate(UnsignedToNumber(Tail(u)))
      ELSE IF u[1] = "+" THEN UnsignedToNumber(Tail(u))
      ELSE UnsignedToNumber(u)

\* Number.isFinite
isFinite(v) == v.t = "num"

(***************************************************************************)
(* JSON values as the client sees them after r.json().                     *)
(***************************************************************************)
Undefined == [t |-> "undefined"]
Null      == [t |-> "null"]
JStr(s)   == [t |-> "str", s |-> s]
JBool(b)  == [t |-> "bool", b |-> b]
JObj(f)   == [t |-> "obj", f |-> f]
JArr(a)   == [t |-> "arr", a |-> a]

IsNullish(v) == v.t \in {"undefined", "null"}

\* a ?? b
Coalesce(a, b) == IF IsNullish(a) THEN b ELSE a

\* v?.k : undefined on a nullish v, on a primitive without that property and
\* on an object that lacks the key
Get(v, k) == IF v.t = "obj" /\ k \in DOMAIN v.f THEN v.f[k] ELSE Undefined


(***************************************************************************)
(* String(v) for the values a station type can hold.                       *)
(***************************************************************************)
RECURSIVE NatToString(_)
NatToString(n) ==
  IF n < 10 THEN <<DigitChars[n + 1]>>
  ELSE NatToString(n \div 10) \o <<DigitChars[(n % 10) + 1]>>

RECURSIVE Pow10(_)
Pow10(e) == IF e = 0 THEN 1 ELSE 10 * Pow10(e - 1)

RECURSIVE PadLeft(_, _)
PadLeft(s, n) == IF Len(s) >= n THEN s ELSE PadLeft(<<"0">> \o s, n)

NumberToString(v) ==
  IF v.t = "nan" THEN <<"N","a","N">>
  ELSE IF v.t = "inf" THEN STR_Infinity
  ELSE LET a    == IF v.m < 0 THEN 0 - v.m ELSE v.m
           sign == IF v.m < 0 THEN <<"-">> ELSE <<>>
           int  == NatToString(a \div Pow10(v.e))
           frac == PadLeft(NatToString(a % Pow10(v.e)), v.e)
       IN  IF v.e = 0 THEN sign \o int ELSE sign \o int \o <<".">> \o frac

STR_true   == <<"t","r","u","e">>
STR_false  == <<"f","a","l","s","e">>
STR_object == <<"[","o","b","j","e","c","t"," ","O","b","j","e","c","t","]">>

String(v) ==
  CASE v.t = "str"  -> v.s
    [] v.t = "bool" -> IF v.b THEN STR_true ELSE STR_false
    [] v.t = "obj"  -> STR_object
    [] OTHER        -> NumberToString(v)

(***************************************************************************)
(* Normalisation and helpers of the StationMap component.                  *)
(***************************************************************************)
STR_wash             == <<"w","a","s","h">>
STR_selfservice      == <<"s","e","l","f","s","e","r","v","i","c","e">>
STR_truck            == <<"t","r","u","c","k">>
STR_charginglocation == <<"c","h","a","r","g","i","n","g","l","o","c","a","t","i","o","n">>
STR_UkjentStasjon    == <<"U","k","j","e","n","t"," ","s","t","a","s","j","o","n">>

\* new Date().toISOString(): the wall clock read at normalisation time, kept
\* as one opaque string
NowISO == JStr(<<"<","n","o","w",">">>)

\* toNumber without the Number.isFinite tests
toNumber_NoFiniteCheck(n) ==
  IF n.t \in {"num", "inf", "nan"} THEN n
  ELSE IF n.t = "str" THEN StringToNumber(replaceComma(n.s))
  ELSE Null

\* toNumber(n): number | null
toNumber(n) ==
  IF n.t \in {"num", "inf", "nan"} THEN (IF isFinite(n) THEN n ELSE Null)
  ELSE IF n.t = "str"
       THEN LET v == StringToNumber(replaceComma(n.s))
            IN  IF isFinite(v) THEN v ELSE Null
  ELSE Null

\* eqType without trim()
eqType_NoTrim(a, b) ==
  IF IsNullish(a) THEN FALSE
  ELSE toLowerCase(String(a)) = toLowerCase(b)

\* eqType(a, b)
eqType(a, b) ==
  IF IsNullish(a) THEN FALSE
  ELSE toLowerCase(trim(String(a))) = toLowerCase(b)

\* a ?? b ?? c ...: the first operand that is neither null nor undefined,
\* the last one when all before it are
CoalesceAll(ops) ==
  LET present == {i \in 1..Len(ops) : ~IsNullish(ops[i])}
  IN  IF present = {} THEN ops[Len(ops)]
      ELSE ops[CHOOSE i \in present : \A j \in present : i <= j]

\* normalizeStation(s)
normalizeStation(s) ==
  LET st   == Get(s, "station")
      name == CoalesceAll(<<Get(st, "name"), Get(s, "name"), Get(s, "title"),
                            Get(s, "stationName"), JStr(STR_UkjentStasjon)>>)
      g    == CoalesceAll(<<Get(st, "geolocation"), Get(s, "geolocation"),
                            Get(s, "geo"), s, JObj(<<>>)>>)
      lat  == toNumber(CoalesceAll(<<Get(g, "latitude"), Get(g, "lat"),
                            Get(g, "Latitude"), Get(g, "Lat"),
                            Get(s, "lat"), Get(s, "Latitude")>>))
      lng  == toNumber(CoalesceAll(<<Get(g, "longitude"), Get(g, "lng"),
                            Get(g, "Longitude"), Get(g, "Lng"),
                            Get(s, "lng"), Get(s, "Longitude")>>))
      lastUpdated ==
              CoalesceAll(<<Get(s, "lastUpdated"), Get(s, "updatedAt"),
                            Get(s, "modified"), Get(s, "lastModified"), NowISO>>)
      stationType ==
              CoalesceAll(<<Get(st, "stationType"), Get(s, "stationType"), Null>>)
  IN  [name |-> name, lat |-> lat, lng |-> lng,
       lastUpdated |-> lastUpdated, stationType |-> stationType]

YELLOW == [stroke |-> "#f57f17", fill |-> "#fbc02d"]
RED    == [stroke |-> "#b71c1c", fill |-> "#f44336"]

\* !v for the values a station type can hold
IsFalsy(v) ==
  \/ IsNullish(v)
  \/ v.t = "nan"
  \/ (v.t = "str" /\ v.s = <<>>)
  \/ (v.t = "bool" /\ ~v.b)
  \/ (v.t = "num" /\ v.m = 0)

\* colorForType(stationType): lower-cased but not trimmed
colorForType(stationType) ==
  IF IsFalsy(stationType) THEN RED
  ELSE LET t == toLowerCase(String(stationType))
       IN  IF t = STR_charginglocation \/ t = STR_truck
              \/ t = STR_selfservice \/ t = STR_wash
           THEN YELLOW ELSE RED

\* passesTypeHide(n), reading the component's typeFilter tf
passesTypeHide(n, tf) ==
  IF tf.hideWash /\ eqType(n.stationType, STR_wash) THEN FALSE
  ELSE IF tf.hideSelfservice /\ eqType(n.stationType, STR_selfservice) THEN FALSE
  ELSE IF tf.hideTruck /\ eqType(n.stationType, STR_truck) THEN FALSE
  ELSE IF tf.hideChargingLocation /\ eqType(n.stationType, STR_charginglocation) THEN FALSE
  ELSE TRUE


(***************************************************************************)
(* Raw station records the upstream may send (untyped JSON).               *)
(***************************************************************************)
RawA == JObj([name |-> JStr(<<"A">>), lat |-> JStr(<<"6","0",",","1">>),
              lng |-> JStr(<<"1","0",",","2">>),
              stationType |-> JStr(<<"W","a","s","h">>)])
RawB == JObj([name |-> JStr(<<"B">>),
              lat |-> JStr(<<"n","o","t","-","a","-","n","u","m","b","e","r">>),
              lng |-> JStr(<<"5">>),
              stationType |-> JStr(<<"T","r","u","c","k">>)])
RawC == JObj([station |-> JObj([name |-> JStr(<<"C">>),
                 geolocation |-> JObj([latitude |-> Num(5991, 2),
                                       longitude |-> Num(1075, 2)]),
                 stationType |-> JStr(<<" ","S","E","L","F","S","E","R","V","I","C","E","\t">>)]),
              name |-> JStr(<<"c","2">>)])
RawD == JObj([title |-> JStr(<<"D">>),
              geo |-> JObj([Lat |-> JStr(<<"6","1">>), Lng |-> JStr(<<" ","9"," ">>)]),
              stationType |-> JStr(<<"C","h","a","r","g","i","n","g","L","o","c","a","t","i","o","n">>),
              lastUpdated |-> JStr(<<"2","0","2","4">>)])
RawE == JObj([stationName |-> JStr(<<"E">>), Latitude |-> Num(62, 0),
              Longitude |-> Infinity])
RawF == JObj([lat |-> JStr(<<>>), lng |-> JStr(<<"-","3",".","5","0">>),
              stationType |-> JStr(<<"w","a","s","h"," ","x">>)])
RawG == JObj([name |-> JStr(<<>>),
              geolocation |-> JObj([lat |-> Num(63, 0), lng |-> Num(7, 0)]),
              stationType |-> Null])
RawH == Null
RawI == JObj([name |-> JStr(<<"I">>),
              geolocation |-> JObj([latitude |-> JStr(<<"1",",","2",",","3">>),
                                    lat |-> Num(60, 0)]),
              lat |-> Num(60, 0), lng |-> Num(10, 0),
              stationType |-> JStr(<<"t","r","u","c","k"," ">>)])
RawPool == {RawA, RawB, RawC, RawD, RawE, RawF, RawG, RawH, RawI}

\* the station lists of at most n records
RECURSIVE ListsUpTo(_)
ListsUpTo(n) ==
  IF n = 0 THEN {<<>>}
  ELSE LET shorter == ListsUpTo(n - 1)
       IN  shorter \cup {Append(l, r) : l \in shorter, r \in RawPool}

StationLists == ListsUpTo(MaxStations)

\* what r.json() can yield for the stations endpoint
StationBodies ==
     {JArr(l) : l \in StationLists}
  \cup {JObj([items |-> JArr(l)]) : l \in StationLists}
  \cup {JObj([items |-> JStr(<<"x">>)]), JObj([items |-> Null]),
        JObj([error |-> JStr(<<"x">>)]), Null, Num(42, 0), JStr(<<"o","k">>)}


(***************************************************************************)
(* State of one page view of the StationMap component.                     *)
(***************************************************************************)
VARIABLES
  mapMounted,     \* `map` has been created by onMount
  mapView,        \* the Leaflet viewport: centre and zoom
  mapLayers,      \* the layers on the map, in the order they were added
  markersGroup,   \* the current marker layer group, NoLayer for null
  initRing,       \* the ring around the first station, NoLayer for null
  stations,       \* the raw station list
  loading,
  errorMsg,       \* '' or the message of the caught error
  visibleCount,
  typeFilter,
  loadPc,         \* where loadStations is: "idle", "fetch", "json", "done"
  raw,            \* what r.json() returned in loadStations
  stationFetches, \* requests sent to the stations endpoint
  rerender        \* the last step ran redrawMarkers on the inputs of the render before

mapVars == <<mapMounted, mapView, mapLayers, markersGroup, initRing, stations,
             loading, errorMsg, visibleCount, typeFilter, loadPc, raw,
             stationFetches, rerender>>

NoLayer == [kind |-> "none"]
NoRaw   == [t |-> "unread"]

FilterKeys == {"hideWash", "hideSelfservice", "hideTruck", "hideChargingLocation"}
AllShown == [hideWash |-> FALSE, hideSelfservice |-> FALSE, hideTruck |-> FALSE,
             hideChargingLocation |-> FALSE]

\* map.removeLayer(l): the layer leaves the map
RemoveLayer(layers, l) ==
  LET hits == {i \in 1..Len(layers) : layers[i] = l}
  IN  IF hits = {} THEN layers
      ELSE LET k == CHOOSE i \in hits : \A j \in hits : i <= j
           IN  SubSeq(layers, 1, k - 1) \o SubSeq(layers, k + 1, Len(layers))

\* the circle marker and popup built for one normalised station
Marker(n) ==
  LET col == colorForType(n.stationType)
  IN  [lat |-> n.lat, lng |-> n.lng, color |-> col.stroke, fillColor |-> col.fill,
       name |-> n.name, stationType |-> n.stationType,
       lastUpdated |-> n.lastUpdated]

\* the loop of redrawMarkers without the test for null coordinates
MarkersFor_NoCoordCheck(sts, tf) ==
  LET norm  == [i \in 1..Len(sts) |-> normalizeStation(sts[i])]
      Shown(n) == passesTypeHide(n, tf)
      shown == SelectSeq(norm, Shown)
  IN  [i \in 1..Len(shown) |-> Marker(shown[i])]

\* the loop of redrawMarkers: the markers added, in list order
MarkersFor(sts, tf) ==
  LET norm  == [i \in 1..Len(sts) |-> normalizeStation(sts[i])]
      Shown(n) == ~(n.lat = Null \/ n.lng = Null) /\ passesTypeHide(n, tf)
      shown == SelectSeq(norm, Shown)
  IN  [i \in 1..Len(shown) |-> Marker(shown[i])]

\* redrawMarkers that leaves the previous marker group on the map
redrawMarkers_KeepOld(mounted, group, layers, count, sts, tf) ==
  IF ~mounted
  THEN [markersGroup |-> group, mapLayers |-> layers, visibleCount |-> count]
  ELSE [fresh \in {[kind |-> "markers", items |-> MarkersFor(sts, tf)]} |->
          [markersGroup |-> fresh, mapLayers |-> Append(layers, fresh),
           visibleCount |-> Len(fresh.items)]
       ][[kind |-> "markers", items |-> MarkersFor(sts, tf)]]

\* redrawMarkers(): the new markersGroup, mapLayers and visibleCount
redrawMarkers(mounted, group, layers, count, sts, tf) ==
  IF ~mounted
  THEN [markersGroup |-> group, mapLayers |-> layers, visibleCount |-> count]
  ELSE LET cleared == IF group # NoLayer THEN RemoveLayer(layers, group) ELSE layers
       IN  [fresh \in {[kind |-> "markers", items |-> MarkersFor(sts, tf)]} |->
              [markersGroup |-> fresh, mapLayers |-> Append(cleared, fresh),
               visibleCount |-> Len(fresh.items)]
           ][[kind |-> "markers", items |-> MarkersFor(sts, tf)]]

\* firstValidLatLng(items): the first normalised station with both coordinates, or null
firstValidLatLng(items) ==
  LET norm == [i \in 1..Len(items) |-> normalizeStation(items[i])]
      ok   == {i \in 1..Len(items) : norm[i].lat # Null /\ norm[i].lng # Null}
  IN  IF ok = {} THEN Null ELSE norm[CHOOSE i \in ok : \A j \in ok : i <= j]

\* centerOnFirstStationOnce() once `first` is known: the new mapView, initRing
\* and mapLayers
centerOnFirst(view, ring, layers, first) ==
  IF first = Null THEN [mapView |-> view, initRing |-> ring, mapLayers |-> layers]
  ELSE [mapView  |-> [lat |-> first.lat, lng |-> first.lng, zoom |-> 12],
        initRing |-> [kind |-> "ring", lat |-> first.lat, lng |-> first.lng,
                      radius |-> 400],
        mapLayers |-> Append(IF ring # NoLayer THEN RemoveLayer(layers, ring)
                             ELSE layers,
                             [kind |-> "ring", lat |-> first.lat, lng |-> first.lng,
                              radius |-> 400])]

\* centerOnFirstStationOnce()
centerOnFirstStationOnce(view, ring, layers, sts) ==
  centerOnFirst(view, ring, layers, firstValidLatLng(sts))

(***************************************************************************)
(* The page view: onMount, loadStations and the filter buttons.            *)
(***************************************************************************)
\* statuses the stations endpoint answers with
ClientStatuses == {200, 404, 500}

HttpMessage(status) ==
  CASE status = 404 -> "HTTP 404 Not Found"
    [] status = 500 -> "HTTP 500 Internal Server Error"
    [] OTHER        -> "HTTP"

MapInit ==
  /\ mapMounted = FALSE
  /\ mapView = [lat |-> Null, lng |-> Null, zoom |-> 0]
  /\ mapLayers = <<>>
  /\ markersGroup = NoLayer
  /\ initRing = NoLayer
  /\ stations = <<>>
  /\ loading = FALSE
  /\ errorMsg = ""
  /\ visibleCount = 0
  /\ typeFilter = AllShown
  /\ loadPc = "idle"
  /\ raw = NoRaw
  /\ stationFetches = 0
  /\ rerender = FALSE

\* onMount up to the fetch of loadStations: the map and its tile layer are
\* created, loading is set, the request leaves
Mount ==
  /\ ~mapMounted
  /\ loadPc = "idle"
  /\ mapMounted' = TRUE
  /\ mapView' = [lat |-> Num(605, 1), lng |-> Num(85, 1), zoom |-> 6]
  /\ mapLayers' = <<[kind |-> "tiles"]>>
  /\ loading' = TRUE
  /\ errorMsg' = ""
  /\ stationFetches' = stationFetches + 1
  /\ loadPc' = "fetch"
  /\ rerender' = FALSE
  /\ UNCHANGED <<markersGroup, initRing, stations, visibleCount, typeFilter, raw>>

\* the end of loadStations without its finally block
LoadSettledWith_NoFinally(list, msg, c, r) ==
  /\ stations' = list
  /\ errorMsg' = msg
  /\ mapView' = c.mapView
  /\ initRing' = c.initRing
  /\ mapLayers' = r.mapLayers
  /\ markersGroup' = r.markersGroup
  /\ visibleCount' = r.visibleCount
  /\ loadPc' = "done"
  /\ rerender' = (markersGroup # NoLayer /\ list = stations)
  /\ UNCHANGED <<mapMounted, typeFilter, stationFetches, loading>>

\* the assignments of LoadSettled, given the outcome c of centerOnFirstStationOnce
\* and the outcome r of redrawMarkers
LoadSettledWith(list, msg, c, r) ==
  /\ stations' = list
  /\ errorMsg' = msg
  /\ loading' = FALSE
  /\ mapView' = c.mapView
  /\ initRing' = c.initRing
  /\ mapLayers' = r.mapLayers
  /\ markersGroup' = r.markersGroup
  /\ visibleCount' = r.visibleCount
  /\ loadPc' = "done"
  /\ rerender' = (markersGroup # NoLayer /\ list = stations)
  /\ UNCHANGED <<mapMounted, typeFilter, stationFetches>>

\* the end of loadStations (assignment or catch, then finally) and the rest of
\* onMount: centerOnFirstStationOnce() and redrawMarkers()
LoadSettled(list, msg) ==
  \E c \in {centerOnFirstStationOnce(mapView, initRing, mapLayers, list)} :
  \E r \in {redrawMarkers(mapMounted, markersGroup, c.mapLayers, visibleCount,
                          list, typeFilter)} :
     LoadSettledWith(list, msg, c, r)

\* fetch() rejects: the catch block runs
StationsFetchError ==
  /\ loadPc = "fetch"
  /\ LoadSettled(<<>>, "Failed to fetch")
  /\ UNCHANGED raw

\* the response head arrives: !r.ok throws, otherwise r.json() is awaited
StationsResponse ==
  /\ loadPc = "fetch"
  /\ \E status \in ClientStatuses :
       IF status < 200 \/ status > 299
       THEN LoadSettled(<<>>, HttpMessage(status)) /\ UNCHANGED raw
       ELSE /\ loadPc' = "json"
            /\ rerender' = FALSE
            /\ UNCHANGED <<mapMounted, mapView, mapLayers, markersGroup, initRing,
                           stations, loading, errorMsg, visibleCount, typeFilter,
                           raw, stationFetches>>

\* r.json() rejects on a body that is not JSON
StationsJsonError ==
  /\ loadPc = "json"
  /\ LoadSettled(<<>>, "Unexpected token < in JSON at position 0")
  /\ UNCHANGED raw

\* r.json() resolves: the list is taken from the body
StationsJson ==
  /\ loadPc = "json"
  /\ \E body \in StationBodies :
       LET list == IF body.t = "arr" THEN body
                   ELSE Coalesce(Get(body, "items"), JArr(<<>>))
       IN  /\ raw' = body
           /\ IF list.t # "arr"
              THEN LoadSettled(<<>>, "Uventet API-format fra upstream.")
              ELSE LoadSettled(list.a, errorMsg)

\* a toggle that clears the other three flags
toggleType_ClearsOthers(key) ==
  /\ mapMounted
  /\ \E tf \in {[AllShown EXCEPT ![key] = ~typeFilter[key]]} :
     \E r \in {redrawMarkers(mapMounted, markersGroup, mapLayers, visibleCount,
                             stations, tf)} :
         /\ typeFilter' = tf
         /\ mapLayers' = r.mapLayers
         /\ markersGroup' = r.markersGroup
         /\ visibleCount' = r.visibleCount
  /\ rerender' = FALSE
  /\ UNCHANGED <<mapMounted, mapView, initRing, stations, loading, errorMsg,
                 loadPc, raw, stationFetches>>

\* toggleType(key)
toggleType(key) ==
  /\ mapMounted
  /\ \E tf \in {[typeFilter EXCEPT ![key] = ~@]} :
     \E r \in {redrawMarkers(mapMounted, markersGroup, mapLayers, visibleCount,
                             stations, tf)} :
         /\ typeFilter' = tf
         /\ mapLayers' = r.mapLayers
         /\ markersGroup' = r.markersGroup
         /\ visibleCount' = r.visibleCount
  /\ rerender' = FALSE
  /\ UNCHANGED <<mapMounted, mapView, initRing, stations, loading, errorMsg,
                 loadPc, raw, stationFetches>>

\* resetTypeFilters()
resetTypeFilters ==
  /\ mapMounted
  /\ \E r \in {redrawMarkers(mapMounted, markersGroup, mapLayers, visibleCount,
                             stations, AllShown)} :
         /\ typeFilter' = AllShown
         /\ mapLayers' = r.mapLayers
         /\ markersGroup' = r.markersGroup
         /\ visibleCount' = r.visibleCount
  /\ rerender' = (markersGroup # NoLayer /\ typeFilter = AllShown)
  /\ UNCHANGED <<mapMounted, mapView, initRing, stations, loading, errorMsg,
                 loadPc, raw, stationFetches>>

MapNext ==
  \/ Mount
  \/ StationsFetchError
  \/ StationsResponse
  \/ StationsJsonError
  \/ StationsJson
  \/ \E key \in FilterKeys : toggleType(key)
  \/ resetTypeFilters


(***************************************************************************)
(* The search client: debounced input, geocode requests, result list.      *)
(* Time is counted in units of 100 ms.                                     *)
(***************************************************************************)
VARIABLES
  q,             \* the text of the search box
  results,       \* the parsed result list
  searching,
  showList,
  activeIndex,
  searchTimer,   \* the id setTimeout returned last, 0 before the first
  timers,        \* the browser's pending timers
  inflight,      \* geocode requests that have not settled
  now,           \* the clock
  searchMarker,  \* the marker of the selected place, NoLayer for null
  inputTimes,    \* the arrival time of every input event
  ran,           \* the input events whose timer called runSearch
  lastRun,       \* the latest call of runSearch: its number and its term
  resultsFrom,   \* the number of the runSearch call that wrote `results` last
  outcome        \* how that call ended: "none", "short", "ok", "network", "http", "json", "map"

searchVars == <<q, results, searching, showList, activeIndex, searchTimer, timers,
                inflight, now, searchMarker, inputTimes, ran, lastRun, resultsFrom, outcome>>

\* setTimeout(() => runSearch(q), 300), in units of 100 ms
DEBOUNCE == 3
\* setTimeout(() => searchMarker?.openPopup(), 100), in units of 100 ms
POPUP_DELAY == 1

\* what the user can type
TermO    == <<"o">>
TermOPad == <<" ","o"," ">>
TermOs   == <<"o","s">>
Terms == {TermO, TermOPad, TermOs}

\* Number(v) for the values a geocode entry holds
ToNumberJS(v) ==
  CASE v.t = "str"       -> StringToNumber(v.s)
    [] v.t = "undefined" -> NaN
    [] v.t = "null"      -> Num(0, 0)
    [] v.t = "bool"      -> IF v.b THEN Num(1, 0) ELSE Num(0, 0)
    [] v.t = "obj"       -> NaN
    [] OTHER             -> v

\* geocode entries the proxy may return
PlaceOslo == JObj([display_name |-> JStr(<<"O","s","l","o">>),
                   lat |-> JStr(<<"5","9",".","9">>), lon |-> JStr(<<"1","0",".","7">>),
                   boundingbox |-> JArr(<<JStr(<<"5","9",".","8">>), JStr(<<"6","0",".","1">>),
                                          JStr(<<"1","0",".","5">>), JStr(<<"1","0",".","9">>)>>)])
PlaceOs   == JObj([display_name |-> JStr(<<"O","s">>),
                   lat |-> JStr(<<"6","0",".","2">>), lon |-> JStr(<<"5",".","5">>)])
PlaceBad  == JObj([display_name |-> JStr(<<"X">>),
                   lat |-> JStr(<<"a","b","c">>), lon |-> JStr(<<"5">>)])

\* what r.json() can yield for the geocode endpoint
GeoBodies == {JArr(<<>>), JArr(<<PlaceOslo>>), JArr(<<PlaceOs, PlaceBad>>),
              JObj([error |-> JStr(<<"x">>)]), JArr(<<Null>>)}

\* the callback of data.map(...) in runSearch; d.display_name of a null entry throws
ParseEntry(d) ==
  [display |-> Get(d, "display_name"),
   lat |-> ToNumberJS(Get(d, "lat")),
   lon |-> ToNumberJS(Get(d, "lon")),
   bbox |-> IF IsNullish(Get(d, "boundingbox")) THEN Undefined
            ELSE JArr([i \in 1..Len(Get(d, "boundingbox").a) |->
                         ToNumberJS(Get(d, "boundingbox").a[i])])]

\* (Array.isArray(data) ? data : []).map(...): the result list, or "throws"
ParseResults(data) ==
  IF data.t # "arr" THEN [threw |-> FALSE, list |-> <<>>]
  ELSE IF \E i \in 1..Len(data.a) : IsNullish(data.a[i])
       THEN [threw |-> TRUE, list |-> <<>>]
       ELSE [threw |-> FALSE, list |-> [i \in 1..Len(data.a) |-> ParseEntry(data.a[i])]]

\* the guard of runSearch without trim()
IsShortTerm_NoTrim(term) == term = <<>> \/ Len(term) < 2

\* !term || term.trim().length < 2
IsShortTerm(term) == term = <<>> \/ Len(trim(term)) < 2

(***************************************************************************)
(* Decimal arithmetic for L.LatLngBounds.pad; NaN is contagious.           *)
(***************************************************************************)
\* the mantissa of v at e fractional digits (e >= v.e)
MantissaAt(v, e) == v.m * Pow10(e - v.e)
MaxExp(a, b) == IF a.e >= b.e THEN a.e ELSE b.e

NumAdd(a, b) ==
  IF a.t # "num" \/ b.t # "num" THEN NaN
  ELSE Num(MantissaAt(a, MaxExp(a, b)) + MantissaAt(b, MaxExp(a, b)), MaxExp(a, b))
NumSub(a, b) == NumAdd(a, Negate(b))
NumLess(a, b) ==
  a.t = "num" /\ b.t = "num"
  /\ MantissaAt(a, MaxExp(a, b)) < MantissaAt(b, MaxExp(a, b))
NumMin(a, b) == IF NumLess(b, a) THEN b ELSE a
NumMax(a, b) == IF NumLess(a, b) THEN b ELSE a
NumAbs(a) == IF a.t = "num" /\ a.m < 0 THEN Negate(a) ELSE a
\* a * 0.1
NumTenth(a) == IF a.t # "num" THEN a ELSE Num(a.m, a.e + 1)

\* L.latLng throws on a NaN coordinate
InvalidLatLng(lat, lng) == lat.t = "nan" \/ lng.t = "nan"

\* L.latLngBounds([[south, west], [north, east]]).pad(0.1)
PaddedBounds(south, north, west, east) ==
  [south |-> NumSub(NumMin(south, north),
                    NumTenth(NumAbs(NumSub(NumMin(south, north), NumMax(south, north))))),
   north |-> NumAdd(NumMax(south, north),
                    NumTenth(NumAbs(NumSub(NumMin(south, north), NumMax(south, north))))),
   west  |-> NumSub(NumMin(west, east),
                    NumTenth(NumAbs(NumSub(NumMin(west, east), NumMax(west, east))))),
   east  |-> NumAdd(NumMax(west, east),
                    NumTenth(NumAbs(NumSub(NumMin(west, east), NumMax(west, east)))))]

(***************************************************************************)
(* Handlers of the search box.                                             *)
(***************************************************************************)
\* onInput without clearTimeout(searchTimer)
onInput_NoClear(value) ==
  /\ Len(inputTimes) < MaxInputs
  /\ q' = value
  /\ timers' = timers \cup {[kind |-> "debounce", id |-> Len(inputTimes) + 1,
                             due |-> now + DEBOUNCE]}
  /\ searchTimer' = Len(inputTimes) + 1
  /\ inputTimes' = Append(inputTimes, now)
  /\ UNCHANGED <<results, searching, showList, activeIndex, inflight, now,
                 searchMarker, ran, lastRun, resultsFrom, outcome, mapVars>>

\* onInput(e): q is the typed text, the pending timer is cleared, a new one set
onInput(value) ==
  /\ Len(inputTimes) < MaxInputs
  /\ q' = value
  /\ timers' = {t \in timers : ~(t.kind = "debounce" /\ t.id = searchTimer)}
               \cup {[kind |-> "debounce", id |-> Len(inputTimes) + 1,
                      due |-> now + DEBOUNCE]}
  /\ searchTimer' = Len(inputTimes) + 1
  /\ inputTimes' = Append(inputTimes, now)
  /\ UNCHANGED <<results, searching, showList, activeIndex, inflight, now,
                 searchMarker, ran, lastRun, resultsFrom, outcome, mapVars>>

\* time passes
Tick ==
  /\ now < MaxTime
  /\ now' = now + 1
  /\ UNCHANGED <<q, results, searching, showList, activeIndex, searchTimer, timers,
                 inflight, searchMarker, inputTimes, ran, lastRun, resultsFrom, outcome,
                 mapVars>>

\* the debounce timer fires: runSearch(q) up to its first await
DebounceFire ==
  \E t \in timers :
    /\ t.kind = "debounce"
    /\ now >= t.due
    /\ timers' = timers \ {t}
    /\ ran' = ran \cup {t.id}
    /\ lastRun' = [id |-> lastRun.id + 1, term |-> q]
    /\ IF IsShortTerm(q)
       THEN /\ results' = <<>>
            /\ showList' = FALSE
            /\ activeIndex' = -1
            /\ resultsFrom' = lastRun.id + 1
            /\ outcome' = "short"
            /\ UNCHANGED <<searching, inflight>>
       ELSE /\ searching' = TRUE
            /\ inflight' = inflight \cup
                 {[id |-> lastRun.id + 1, term |-> q, stage |-> "fetch"]}
            /\ UNCHANGED <<results, showList, activeIndex, resultsFrom, outcome>>
    /\ UNCHANGED <<q, searchTimer, now, searchMarker, inputTimes, mapVars>>

\* a catch block that empties the list but leaves it open
SearchFailed_ListLeftOpen(r, why) ==
  /\ results' = <<>>
  /\ activeIndex' = -1
  /\ searching' = FALSE
  /\ inflight' = inflight \ {r}
  /\ resultsFrom' = r.id
  /\ outcome' = why
  /\ UNCHANGED <<q, showList, searchTimer, timers, now, searchMarker, inputTimes, ran,
                 lastRun, mapVars>>

\* the catch and finally blocks of runSearch for request r, which failed by `why`
SearchFailed(r, why) ==
  /\ results' = <<>>
  /\ showList' = FALSE
  /\ activeIndex' = -1
  /\ searching' = FALSE
  /\ inflight' = inflight \ {r}
  /\ resultsFrom' = r.id
  /\ outcome' = why
  /\ UNCHANGED <<q, searchTimer, timers, now, searchMarker, inputTimes, ran,
                 lastRun, mapVars>>

\* fetch() rejects
SearchFetchError ==
  \E r \in inflight : r.stage = "fetch" /\ SearchFailed(r, "network")

\* the response head arrives: !r.ok throws, otherwise r.json() is awaited
SearchResponse ==
  \E r \in inflight : \E status \in ClientStatuses :
    /\ r.stage = "fetch"
    /\ IF status < 200 \/ status > 299
       THEN SearchFailed(r, "http")
       ELSE /\ inflight' = (inflight \ {r}) \cup {[r EXCEPT !.stage = "json"]}
            /\ UNCHANGED <<q, results, searching, showList, activeIndex, searchTimer,
                           timers, now, searchMarker, inputTimes, ran, lastRun,
                           resultsFrom, outcome, mapVars>>

\* r.json() rejects
SearchJsonError ==
  \E r \in inflight : r.stage = "json" /\ SearchFailed(r, "json")

\* r.json() resolves: the entries are mapped and the list is opened
SearchJson ==
  \E r \in inflight : \E data \in GeoBodies : \E parsed \in {ParseResults(data)} :
    /\ r.stage = "json"
    /\ IF parsed.threw
       THEN SearchFailed(r, "map")
       ELSE /\ results' = parsed.list
            /\ showList' = TRUE
            /\ activeIndex' = IF Len(parsed.list) > 0 THEN 0 ELSE -1
            /\ searching' = FALSE
            /\ inflight' = inflight \ {r}
            /\ resultsFrom' = r.id
            /\ outcome' = "ok"
            /\ UNCHANGED <<q, searchTimer, timers, now, searchMarker, inputTimes,
                           ran, lastRun, mapVars>>

\* selectResult(r)
selectResult(r) ==
  /\ q' = r.display.s
  /\ showList' = FALSE
  /\ \E cleared \in {IF searchMarker # NoLayer THEN RemoveLayer(mapLayers, searchMarker)
                     ELSE mapLayers} :
     \E marker \in {[kind |-> "search", lat |-> r.lat, lng |-> r.lon,
                     name |-> r.display, popupOpen |-> FALSE]} :
       IF InvalidLatLng(r.lat, r.lon)
       THEN \* L.circleMarker throws: the old marker is gone, nothing else happens
            /\ searchMarker' = NoLayer
            /\ mapLayers' = cleared
            /\ UNCHANGED <<mapView, timers>>
       ELSE /\ searchMarker' = marker
            /\ mapLayers' = Append(cleared, marker)
            /\ IF r.bbox.t = "arr" /\ Len(r.bbox.a) = 4
               THEN IF InvalidLatLng(r.bbox.a[1], r.bbox.a[3])
                       \/ InvalidLatLng(r.bbox.a[2], r.bbox.a[4])
                    THEN \* L.latLngBounds throws
                         UNCHANGED <<mapView, timers>>
                    ELSE /\ mapView' = [fit |-> PaddedBounds(r.bbox.a[1], r.bbox.a[2],
                                                             r.bbox.a[3], r.bbox.a[4])]
                         /\ timers' = timers \cup
                              {[kind |-> "popup", id |-> 0, due |-> now + POPUP_DELAY]}
               ELSE /\ mapView' = [lat |-> r.lat, lng |-> r.lon, zoom |-> 13]
                    /\ timers' = timers \cup
                         {[kind |-> "popup", id |-> 0, due |-> now + POPUP_DELAY]}
  /\ UNCHANGED <<results, searching, activeIndex, searchTimer, inflight, now,
                 inputTimes, ran, lastRun, resultsFrom, outcome, mapMounted, markersGroup,
                 initRing, stations, loading, errorMsg, visibleCount, typeFilter,
                 loadPc, raw, stationFetches, rerender>>

\* a click on entry i of the open list
ClickResult ==
  /\ showList /\ ~searching
  /\ \E i \in 1..Len(results) : selectResult(results[i])

\* ArrowDown that stops at the last entry
ArrowDownIndex_Clamp(i, n) == IF i + 1 < n THEN i + 1 ELSE i

\* (activeIndex + 1) % results.length
ArrowDownIndex(i, n) == (i + 1) % n

\* ArrowUp without the wrap to the last entry
ArrowUpIndex_NoWrap(i, n) == i - 1

\* (activeIndex - 1 + results.length) % results.length
ArrowUpIndex(i, n) == (i - 1 + n) % n

\* a key handler whose Escape also clears the typed text
onKeydown_EscapeClears(key) ==
  IF ~showList \/ Len(results) = 0
  THEN UNCHANGED <<searchVars, mapVars>>
  ELSE CASE key = "ArrowDown" ->
              /\ activeIndex' = ArrowDownIndex(activeIndex, Len(results))
              /\ UNCHANGED <<q, results, searching, showList, searchTimer, timers,
                             inflight, now, searchMarker, inputTimes, ran, lastRun,
                             resultsFrom, outcome, mapVars>>
         [] key = "ArrowUp" ->
              /\ activeIndex' = ArrowUpIndex(activeIndex, Len(results))
              /\ UNCHANGED <<q, results, searching, showList, searchTimer, timers,
                             inflight, now, searchMarker, inputTimes, ran, lastRun,
                             resultsFrom, outcome, mapVars>>
         [] key = "Enter" ->
              IF activeIndex >= 0
              THEN selectResult(results[activeIndex + 1])
              ELSE UNCHANGED <<searchVars, mapVars>>
         [] key = "Escape" ->
              /\ showList' = FALSE
              /\ q' = <<>>
              /\ UNCHANGED <<results, searching, activeIndex, searchTimer, timers,
                             inflight, now, searchMarker, inputTimes, ran, lastRun,
                             resultsFrom, outcome, mapVars>>

\* onKeydown(e)
onKeydown(key) ==
  IF ~showList \/ Len(results) = 0
  THEN UNCHANGED <<searchVars, mapVars>>
  ELSE CASE key = "ArrowDown" ->
              /\ activeIndex' = ArrowDownIndex(activeIndex, Len(results))
              /\ UNCHANGED <<q, results, searching, showList, searchTimer, timers,
                             inflight, now, searchMarker, inputTimes, ran, lastRun,
                             resultsFrom, outcome, mapVars>>
         [] key = "ArrowUp" ->
              /\ activeIndex' = ArrowUpIndex(activeIndex, Len(results))
              /\ UNCHANGED <<q, results, searching, showList, searchTimer, timers,
                             inflight, now, searchMarker, inputTimes, ran, lastRun,
                             resultsFrom, outcome, mapVars>>
         [] key = "Enter" ->
              IF activeIndex >= 0
              THEN selectResult(results[activeIndex + 1])
              ELSE UNCHANGED <<searchVars, mapVars>>
         [] key = "Escape" ->
              /\ showList' = FALSE
              /\ UNCHANGED <<q, results, searching, activeIndex, searchTimer, timers,
                             inflight, now, searchMarker, inputTimes, ran, lastRun,
                             resultsFrom, outcome, mapVars>>

Keys == {"ArrowDown", "ArrowUp", "Enter", "Escape"}

\* the popup timer fires: searchMarker?.openPopup()
PopupFire ==
  \E t \in timers :
    /\ t.kind = "popup"
    /\ now >= t.due
    /\ timers' = timers \ {t}
    /\ IF searchMarker = NoLayer
       THEN UNCHANGED <<searchMarker, mapLayers>>
       ELSE /\ searchMarker' = [searchMarker EXCEPT !.popupOpen = TRUE]
            /\ mapLayers' = [i \in 1..Len(mapLayers) |->
                               IF mapLayers[i] = searchMarker
                               THEN [searchMarker EXCEPT !.popupOpen = TRUE]
                               ELSE mapLayers[i]]
    /\ UNCHANGED <<q, results, searching, showList, activeIndex, searchTimer,
                   inflight, now, inputTimes, ran, lastRun, resultsFrom, outcome, mapMounted,
                   mapView, markersGroup, initRing, stations, loading, errorMsg,
                   visibleCount, typeFilter, loadPc, raw, stationFetches, rerender>>

SearchNext ==
  \/ \E value \in Terms : onInput(value)
  \/ Tick
  \/ DebounceFire
  \/ SearchFetchError
  \/ SearchResponse
  \/ SearchJsonError
  \/ SearchJson
  \/ ClickResult
  \/ \E key \in Keys : onKeydown(key)
  \/ PopupFire

\* the page once the station load has settled on an empty list
MapReady ==
  /\ mapMounted = TRUE
  /\ mapView = [lat |-> Num(605, 1), lng |-> Num(85, 1), zoom |-> 6]
  /\ mapLayers = <<[kind |-> "tiles"], [kind |-> "markers", items |-> <<>>]>>
  /\ markersGroup = [kind |-> "markers", items |-> <<>>]
  /\ initRing = NoLayer
  /\ stations = <<>>
  /\ loading = FALSE
  /\ errorMsg = ""
  /\ visibleCount = 0
  /\ typeFilter = AllShown
  /\ loadPc = "done"
  /\ raw = JArr(<<>>)
  /\ stationFetches = 1
  /\ rerender = FALSE

\* the search box before the first input event
SearchIdle ==
  /\ q = <<>>
  /\ results = <<>>
  /\ searching = FALSE
  /\ showList = FALSE
  /\ activeIndex = -1
  /\ searchTimer = 0
  /\ timers = {}
  /\ inflight = {}
  /\ now = 0
  /\ searchMarker = NoLayer
  /\ inputTimes = <<>>
  /\ ran = {}
  /\ lastRun = [id |-> 0, term |-> <<>>]
  /\ resultsFrom = 0
  /\ outcome = "none"

(***************************************************************************)
(* The two server endpoints: /api/geocode and /api/stations.               *)
(***************************************************************************)
VARIABLES
  pRoute,   \* the endpoint that is handling a request: "geocode", "stations", "none"
  pQ,       \* url.searchParams.get('q'): a string or null
  pLimit,   \* url.searchParams.get('limit'): a string or null
  pPc,      \* "idle", "fetch" (awaiting the upstream) or "done"
  pCalls,   \* the upstream calls made for this request
  pUp,      \* the upstream response
  pOut      \* what the handler returned, or that it threw

proxyVars == <<pRoute, pQ, pLimit, pPc, pCalls, pUp, pOut>>

NOMINATIM == "https://nominatim.openstreetmap.org/search"
UPSTREAM  == "https://apim.unox.no/network/networks/stations"

NoResponse == [kind |-> "none"]
Threw      == [kind |-> "threw"]

\* query strings a caller may send
ProxyQueries == {Null, JStr(<<>>), JStr(TermO), JStr(TermOPad), JStr(TermOs),
                 JStr(<<" ","o","s">>)}
ProxyLimits  == {Null, JStr(<<>>), JStr(<<"3">>)}

\* what the upstream may answer
UpstreamStatuses == {200, 204, 404, 500}
UpstreamTypes    == {Null, JStr(<<"a","p","p","l","i","c","a","t","i","o","n","/","j","s","o","n">>),
                     JStr(<<"t","e","x","t","/","h","t","m","l">>)}
UpstreamBodies   == {<<>>, <<"[","]">>, <<"<","h","t","m","l",">">>}
UpstreamResponses ==
  {[kind |-> "response", status |-> s, contentType |-> c, body |-> b] :
     s \in UpstreamStatuses, c \in UpstreamTypes, b \in UpstreamBodies}

STR_appjson == <<"a","p","p","l","i","c","a","t","i","o","n","/","j","s","o","n">>
STR_8       == <<"8">>

\* new Response(body, { status, headers }): the constructor throws a RangeError
\* for a status outside 200..599 and a TypeError for a body given with a null
\* body status (101, 103, 204, 205, 304)
NewResponse(body, status, headers) ==
  IF status < 200 \/ status > 599 \/ status \in {204, 205, 304}
  THEN Threw
  ELSE [kind |-> "response", status |-> status, body |-> body,
        contentType |-> headers.contentType, cacheControl |-> headers.cacheControl]

\* the response both handlers build from the upstream response r
PassThrough(r) ==
  NewResponse(r.body, r.status,
              [contentType  |-> Coalesce(r.contentType, JStr(STR_appjson)),
               cacheControl |-> "public, max-age=60"])

\* !q || q.trim().length < 2
GeocodeShortQuery(qv) == IsNullish(qv) \/ qv.s = <<>> \/ Len(trim(qv.s)) < 2

\* the upstream call of the geocode handler that forwards the trimmed q
GeocodeCall_TrimmedQ(qv, limit) ==
  [url |-> NOMINATIM,
   params |-> [format |-> <<"j","s","o","n","v","2">>, addressdetails |-> <<"1">>,
               limit |-> Coalesce(limit, JStr(STR_8)).s, q |-> trim(qv.s)],
   headers |-> [accept |-> "application/json",
                userAgent |-> "Unox-Map/1.0 (contact: it@unox.no)"]]

\* the upstream call of the geocode handler
GeocodeCall(qv, limit) ==
  [url |-> NOMINATIM,
   params |-> [format |-> <<"j","s","o","n","v","2">>, addressdetails |-> <<"1">>,
               limit |-> Coalesce(limit, JStr(STR_8)).s, q |-> qv.s],
   headers |-> [accept |-> "application/json",
                userAgent |-> "Unox-Map/1.0 (contact: it@unox.no)"]]

\* the upstream call of the stations handler
StationsCall ==
  [url |-> UPSTREAM, method |-> "GET", headers |-> [accept |-> "application/json"]]

ProxyIdle ==
  /\ pRoute = "none"
  /\ pQ = Null
  /\ pLimit = Null
  /\ pPc = "idle"
  /\ pCalls = <<>>
  /\ pUp = NoResponse
  /\ pOut = NoResponse

\* GET /api/geocode up to the await of fetch, or to the early return
GeocodeGet ==
  /\ pPc \in {"idle", "done"}
  /\ \E qv \in ProxyQueries : \E limit \in ProxyLimits :
       /\ pRoute' = "geocode"
       /\ pQ' = qv
       /\ pLimit' = limit
       /\ pUp' = NoResponse
       /\ IF GeocodeShortQuery(qv)
          THEN /\ pOut' = [kind |-> "response", status |-> 200, body |-> <<"[","]">>,
                           contentType |-> JStr(STR_appjson), cacheControl |-> ""]
               /\ pCalls' = <<>>
               /\ pPc' = "done"
          ELSE /\ pOut' = NoResponse
               /\ pCalls' = <<GeocodeCall(qv, limit)>>
               /\ pPc' = "fetch"

\* GET /api/stations up to the await of fetch
StationsGet ==
  /\ pPc \in {"idle", "done"}
  /\ pRoute' = "stations"
  /\ pQ' = Null
  /\ pLimit' = Null
  /\ pUp' = NoResponse
  /\ pOut' = NoResponse
  /\ pCalls' = <<StationsCall>>
  /\ pPc' = "fetch"

\* the upstream answers: r.text() is read and the response is built
UpstreamAnswers ==
  /\ pPc = "fetch"
  /\ \E r \in UpstreamResponses :
       /\ pUp' = r
       /\ pOut' = PassThrough(r)
  /\ pPc' = "done"
  /\ UNCHANGED <<pRoute, pQ, pLimit, pCalls>>

\* fetch() rejects: the handler throws
UpstreamFails ==
  /\ pPc = "fetch"
  /\ pOut' = Threw
  /\ pPc' = "done"
  /\ UNCHANGED <<pRoute, pQ, pLimit, pCalls, pUp>>

ProxyNext ==
  \/ GeocodeGet
  \/ StationsGet
  \/ UpstreamAnswers
  \/ UpstreamFails

(***************************************************************************)
(* Specifications.                                                         *)
(***************************************************************************)
vars == <<mapVars, searchVars, proxyVars>>

\* the page view with the search box and the endpoints left alone
Init == MapInit /\ SearchIdle /\ ProxyIdle
Next ==
  \/ Mount /\ UNCHANGED <<searchVars, proxyVars>>
  \/ StationsFetchError /\ UNCHANGED <<searchVars, proxyVars>>
  \/ StationsResponse /\ UNCHANGED <<searchVars, proxyVars>>
  \/ StationsJsonError /\ UNCHANGED <<searchVars, proxyVars>>
  \/ StationsJson /\ UNCHANGED <<searchVars, proxyVars>>
  \/ \E key \in FilterKeys : toggleType(key) /\ UNCHANGED <<searchVars, proxyVars>>
  \/ resetTypeFilters /\ UNCHANGED <<searchVars, proxyVars>>
Spec == Init /\ [][Next]_vars

\* the search box on a page whose stations have loaded
SearchInit == MapReady /\ SearchIdle /\ ProxyIdle
SearchStep ==
  \/ \E value \in Terms : onInput(value) /\ UNCHANGED proxyVars
  \/ Tick /\ UNCHANGED proxyVars
  \/ DebounceFire /\ UNCHANGED proxyVars
  \/ SearchFetchError /\ UNCHANGED proxyVars
  \/ SearchResponse /\ UNCHANGED proxyVars
  \/ SearchJsonError /\ UNCHANGED proxyVars
  \/ SearchJson /\ UNCHANGED proxyVars
  \/ ClickResult /\ UNCHANGED proxyVars
  \/ \E key \in Keys : onKeydown(key) /\ UNCHANGED proxyVars
  \/ PopupFire /\ UNCHANGED proxyVars
SearchSpec == SearchInit /\ [][SearchStep]_vars

\* the two endpoints, serving one request after the other
ProxyInit == MapInit /\ SearchIdle /\ ProxyIdle
ProxyStep ==
  \/ GeocodeGet /\ UNCHANGED <<mapVars, searchVars>>
  \/ StationsGet /\ UNCHANGED <<mapVars, searchVars>>
  \/ UpstreamAnswers /\ UNCHANGED <<mapVars, searchVars>>
  \/ UpstreamFails /\ UNCHANGED <<mapVars, searchVars>>
ProxySpec == ProxyInit /\ [][ProxyStep]_vars

\* the page once onMount has loaded and drawn the station list `list`
PageLoaded(list) ==
  \E c \in {centerOnFirstStationOnce([lat |-> Num(605, 1), lng |-> Num(85, 1), zoom |-> 6],
                                     NoLayer, <<[kind |-> "tiles"]>>, list)} :
  \E r \in {redrawMarkers(TRUE, NoLayer, c.mapLayers, 0, list, AllShown)} :
    /\ mapMounted = TRUE
    /\ mapView = c.mapView
    /\ initRing = c.initRing
    /\ mapLayers = r.mapLayers
    /\ markersGroup = r.markersGroup
    /\ visibleCount = r.visibleCount
    /\ stations = list
    /\ loading = FALSE
    /\ errorMsg = ""
    /\ typeFilter = AllShown
    /\ loadPc = "done"
    /\ raw = JArr(list)
    /\ stationFetches = 1
    /\ rerender = FALSE

\* station lists for the filter buttons: every station type, stations without
\* coordinates, a record that is null
FilterLists == {<<>>, <<RawB, RawA>>, <<RawC, RawF>>, <<RawD, RawI>>, <<RawG, RawH>>,
                <<RawA, RawC>>, <<RawI, RawB>>, <<RawE, RawD>>}

\* the filter buttons on a loaded page
FilterInit == (\E list \in FilterLists : PageLoaded(list)) /\ SearchIdle /\ ProxyIdle
FilterStep ==
  \/ \E key \in FilterKeys : toggleType(key) /\ UNCHANGED <<searchVars, proxyVars>>
  \/ resetTypeFilters /\ UNCHANGED <<searchVars, proxyVars>>
FilterSpec == FilterInit /\ [][FilterStep]_vars

\* the page view, with every started fetch() and r.json() settling in the end
LoadFairness ==
  /\ WF_vars((StationsFetchError \/ StationsResponse)
               /\ UNCHANGED <<searchVars, proxyVars>>)
  /\ WF_vars((StationsJsonError \/ StationsJson)
               /\ UNCHANGED <<searchVars, proxyVars>>)
LoadSpec == Init /\ [][Next]_vars /\ LoadFairness

(***************************************************************************)
(* Properties of the page view.                                            *)
(***************************************************************************)
\* the literal each hide flag stands for
LiteralOf(key) ==
  CASE key = "hideWash"             -> STR_wash
    [] key = "hideSelfservice"      -> STR_selfservice
    [] key = "hideTruck"            -> STR_truck
    [] key = "hideChargingLocation" -> STR_charginglocation

\* the station's type, trimmed and lower-cased, is a literal whose hide flag is on
HiddenByType(n, tf) ==
  /\ n.stationType.t = "str"
  /\ \E key \in FilterKeys :
       tf[key] /\ toLowerCase(trim(n.stationType.s)) = LiteralOf(key)

\* the normalised station list
Normalized == [i \in 1..Len(stations) |-> normalizeStation(stations[i])]

\* C1: passesTypeHide is false exactly for a station whose type, trimmed and
\* compared case-insensitively, is one of wash / selfservice / truck /
\* charginglocation with the hide flag of that literal on; it is true in every
\* other case, a null or unknown type included.
C1_PassesTypeHide ==
  \A i \in 1..Len(stations) :
     /\ passesTypeHide(Normalized[i], typeFilter)
          = ~HiddenByType(Normalized[i], typeFilter)
     /\ (Normalized[i].stationType = Null => passesTypeHide(Normalized[i], typeFilter))

\* a station typed " SELFSERVICE<tab>" is hidden by hideSelfservice alone, next
\* to one of unknown type that stays
C1_Witness ==
  /\ loadPc = "done"
  /\ stations = <<RawC, RawF>>
  /\ typeFilter = [AllShown EXCEPT !.hideSelfservice = TRUE]
  /\ ~passesTypeHide(Normalized[1], typeFilter)
  /\ passesTypeHide(Normalized[2], typeFilter)

\* the stations that have both coordinates and pass the type filter
VisibleStations ==
  {i \in 1..Len(stations) :
     /\ Normalized[i].lat # Null
     /\ Normalized[i].lng # Null
     /\ ~HiddenByType(Normalized[i], typeFilter)}

\* the marker groups that are on the map
MarkerLayers == SelectSeq(mapLayers, LAMBDA l : l.kind = "markers")

\* C2: once the map is mounted, visibleCount is the number of stations of the
\* current list with both normalised coordinates non-null that pass the current
\* type filter, every marker on the map belongs to such a station, and for the
\* Wash station with hideWash on plus the station with a non-numeric latitude
\* nothing is visible.
C2_VisibleCount ==
  mapMounted =>
    /\ visibleCount = Cardinality(VisibleStations)
    /\ \A k \in 1..Len(MarkerLayers) :
         /\ Len(MarkerLayers[k].items) = Cardinality(VisibleStations)
         /\ \A j \in 1..Len(MarkerLayers[k].items) :
              \E i \in VisibleStations :
                 /\ MarkerLayers[k].items[j].lat = Normalized[i].lat
                 /\ MarkerLayers[k].items[j].lng = Normalized[i].lng
                 /\ MarkerLayers[k].items[j].name = Normalized[i].name
    /\ (stations = <<RawA, RawB>> /\ typeFilter.hideWash /\ loadPc = "done"
          => visibleCount = 0 /\ markersGroup.items = <<>>)

\* the end-to-end case: A is hidden by hideWash, B has no usable latitude
C2_Witness ==
  /\ loadPc = "done"
  /\ stations = <<RawA, RawB>>
  /\ typeFilter.hideWash
  /\ visibleCount = 0
  /\ markersGroup = [kind |-> "markers", items |-> <<>>]

\* C3: redrawMarkers is idempotent: run again on an unchanged station list and
\* unchanged filter flags it leaves the same visibleCount, the same visible
\* markers and the same layers on the map, so that the markers of an earlier
\* render never accumulate.
C3_Idempotent ==
  [][rerender' => /\ visibleCount' = visibleCount
                  /\ markersGroup' = markersGroup
                  /\ mapLayers' = mapLayers]_vars

\* a second render of a non-empty marker set
C3_Witness ==
  /\ rerender
  /\ visibleCount = 2
  /\ Len(MarkerLayers) = 1

\* the body is an array or an object with an items array
IsStationList(body) ==
  \/ body.t = "arr"
  \/ (body.t = "obj" /\ "items" \in DOMAIN body.f /\ body.f.items.t = "arr")

\* C9: in loadStations every upstream body that is neither an array nor an
\* object with an items array is a fatal format error: errorMsg is set to a
\* non-empty message and the station list is cleared.
C9_FormatError ==
  (loadPc = "done" /\ raw # NoRaw /\ ~IsStationList(raw))
     => (errorMsg # "" /\ stations = <<>>)

\* C10 as stated: lat and lng of a normalised station are both finite numbers
\* or both null.
C10_BothOrNeither ==
  \A i \in 1..Len(stations) :
     \/ (isFinite(Normalized[i].lat) /\ isFinite(Normalized[i].lng))
     \/ (Normalized[i].lat = Null /\ Normalized[i].lng = Null)

\* C10 (amended): lat and lng of a normalised station are each a finite number
\* or null, independently of each other.
C10_EachFiniteOrNull ==
  \A i \in 1..Len(stations) :
     /\ (isFinite(Normalized[i].lat) \/ Normalized[i].lat = Null)
     /\ (isFinite(Normalized[i].lng) \/ Normalized[i].lng = Null)

\* a station with a numeric latitude and a null longitude (Infinity upstream),
\* and one with a null latitude and a numeric longitude
C10_Witness ==
  /\ loadPc = "done"
  /\ stations = <<RawE, RawB>>
  /\ isFinite(Normalized[1].lat) /\ Normalized[1].lng = Null
  /\ Normalized[2].lat = Null /\ isFinite(Normalized[2].lng)


(***************************************************************************)
(* Properties of the search client.                                        *)
(***************************************************************************)
\* C4: only the most recent search query's result is displayed: a result list
\* that is open on the screen once every request has settled is the one written
\* by the most recently issued runSearch call, never that of a superseded call
\* whose response arrived later.
C4_LatestWins ==
  (showList /\ inflight = {}) => resultsFrom = lastRun.id

\* the pending debounce timers
DebounceTimers == {t \in timers : t.kind = "debounce"}

\* C5: the search input is a trailing-edge debounce: at most one debounce timer
\* is pending, it belongs to the last input event and is due 300 ms after it,
\* and an input event followed by another one less than 300 ms later never
\* leads to a runSearch call.
C5_TrailingDebounce ==
  /\ Cardinality(DebounceTimers) <= 1
  /\ \A t \in DebounceTimers :
       t.id = Len(inputTimes) /\ t.due = inputTimes[t.id] + DEBOUNCE
  /\ \A i \in 1..(Len(inputTimes) - 1) :
       inputTimes[i + 1] - inputTimes[i] < DEBOUNCE => i \notin ran
  /\ \A i \in ran : now >= inputTimes[i] + DEBOUNCE

\* three input events, each less than 300 ms after the one before; only the
\* last one has called runSearch
C5_Witness ==
  /\ Len(inputTimes) = 3
  /\ inputTimes[2] - inputTimes[1] < DEBOUNCE
  /\ inputTimes[3] - inputTimes[2] < DEBOUNCE
  /\ inputTimes[3] > inputTimes[1]
  /\ ran = {3}
  /\ timers = {}

\* C6: a runSearch call whose term has a trimmed length below 2 sends no
\* request and leaves at once an empty, closed result list: results = [],
\* showList = false, activeIndex = -1.
C6_ShortTermNoRequest ==
  [][(lastRun'.id # lastRun.id /\ Len(trim(lastRun'.term)) < 2)
       => /\ inflight' = inflight
          /\ results' = <<>>
          /\ showList' = FALSE
          /\ activeIndex' = -1]_vars

\* runSearch(" o ") has just closed the list that "os" had opened
C6_Witness ==
  /\ lastRun = [id |-> 2, term |-> TermOPad]
  /\ resultsFrom = 2
  /\ inflight = {}
  /\ results = <<>>
  /\ ~showList
  /\ activeIndex = -1


(***************************************************************************)
(* Properties of the two endpoints.                                        *)
(***************************************************************************)
\* q is absent or its trimmed length is below 2
AbsentOrShort(qv) == qv = Null \/ Len(trim(qv.s)) < 2

\* C7: GET /api/geocode answers 200 with an empty JSON array and calls no
\* upstream whenever q is absent or its trimmed length is below 2; for every
\* other q it makes exactly one upstream call, carrying format=jsonv2,
\* addressdetails=1, the caller's q and the caller's limit (8 when absent).
C7_GeocodeGet ==
  (pRoute = "geocode" /\ pPc # "idle") =>
     IF AbsentOrShort(pQ)
     THEN /\ pPc = "done"
          /\ pCalls = <<>>
          /\ pOut.kind = "response" /\ pOut.status = 200 /\ pOut.body = <<"[","]">>
     ELSE /\ Len(pCalls) = 1
          /\ pCalls[1].url = NOMINATIM
          /\ pCalls[1].params.format = <<"j","s","o","n","v","2">>
          /\ pCalls[1].params.addressdetails = <<"1">>
          /\ pCalls[1].params.q = pQ.s
          /\ pCalls[1].params.limit = (IF pLimit = Null THEN <<"8">> ELSE pLimit.s)

\* " os" without a limit has been forwarded untrimmed with limit 8 and answered
C7_Witness ==
  /\ pRoute = "geocode"
  /\ pPc = "done"
  /\ pQ = JStr(<<" ","o","s">>)
  /\ pLimit = Null
  /\ Len(pCalls) = 1
  /\ pCalls[1].params.limit = <<"8">>
  /\ pUp.kind = "response"

\* C8: both proxies are transparent: for every upstream response, non-2xx
\* included, the handler returns the upstream status and body unchanged, the
\* upstream content-type (application/json when the upstream has none) and
\* cache-control: public, max-age=60.
C8_Transparent ==
  (pPc = "done" /\ pUp.kind = "response") =>
     /\ pOut.kind = "response"
     /\ pOut.status = pUp.status
     /\ pOut.body = pUp.body
     /\ pOut.contentType = (IF pUp.contentType = Null THEN JStr(STR_appjson)
                            ELSE pUp.contentType)
     /\ pOut.cacheControl = "public, max-age=60"

(***************************************************************************)
(* Properties of the search client, continued.                             *)
(***************************************************************************)
\* the ways a geocode request fails: fetch rejects, the status is not 2xx,
\* r.json() rejects, the mapping of the entries throws
Failures == {"network", "http", "json", "map"}

\* C11: when a geocode request issued by runSearch fails (network error,
\* non-2xx status, unparsable body), the step that settles it leaves
\* results = [], showList = false, activeIndex = -1, searching = false and
\* does not touch the station-load errorMsg.
C11_SearchFailure ==
  [][(Cardinality(inflight') < Cardinality(inflight) /\ outcome' \in Failures)
       => /\ results' = <<>>
          /\ showList' = FALSE
          /\ activeIndex' = -1
          /\ searching' = FALSE
          /\ errorMsg' = errorMsg]_vars

\* the second call of runSearch got a non-2xx answer and has settled
C11_Witness ==
  /\ outcome = "http"
  /\ lastRun.id = 2
  /\ resultsFrom = 2
  /\ inflight = {}
  /\ results = <<>>
  /\ ~showList
  /\ activeIndex = -1
  /\ ~searching
  /\ errorMsg = ""

\* activeIndex after k presses of ArrowDown, of ArrowUp, on a list of n entries
RECURSIVE DownTimes(_, _, _)
DownTimes(k, i, n) == IF k = 0 THEN i ELSE DownTimes(k - 1, ArrowDownIndex(i, n), n)
RECURSIVE UpTimes(_, _, _)
UpTimes(k, i, n) == IF k = 0 THEN i ELSE UpTimes(k - 1, ArrowUpIndex(i, n), n)

\* C12: while the list is shown and non-empty, ArrowDown and ArrowUp move
\* activeIndex circularly within [0, results.length) (down from the last
\* index gives 0, up from 0 gives the last index, results.length presses of
\* one key come back to the start) and Enter commits results[activeIndex];
\* while the list is closed or empty the four keys change nothing.
C12_Keyboard ==
  /\ [](showList /\ Len(results) > 0 =>
          /\ DownTimes(Len(results), activeIndex, Len(results)) = activeIndex
          /\ UpTimes(Len(results), activeIndex, Len(results)) = activeIndex)
  /\ [][\A key \in Keys : onKeydown(key) =>
          IF showList /\ Len(results) > 0
          THEN CASE key = "ArrowDown" ->
                      /\ activeIndex' \in 0..(Len(results) - 1)
                      /\ activeIndex' = IF activeIndex = Len(results) - 1 THEN 0
                                        ELSE activeIndex + 1
                 [] key = "ArrowUp" ->
                      /\ activeIndex' \in 0..(Len(results) - 1)
                      /\ activeIndex' = IF activeIndex = 0 THEN Len(results) - 1
                                        ELSE activeIndex - 1
                 [] key = "Enter" ->
                      /\ activeIndex \in 0..(Len(results) - 1)
                      /\ selectResult(results[activeIndex + 1])
                 [] OTHER -> TRUE
          ELSE UNCHANGED searchVars]_vars

\* an arrow key has moved the active entry of two listed places to the second
C12_Witness ==
  /\ showList
  /\ Len(results) = 2
  /\ activeIndex = 1
  /\ q = TermOs

\* C13: a geocode entry whose lat or lon is missing or not numeric (NaN after
\* Number()) is rejected before use: it is in no result list and is never
\* handed to selectResult.
C13_NaNRejected ==
  /\ \A i \in 1..Len(results) : ~InvalidLatLng(results[i].lat, results[i].lon)
  /\ q # Get(PlaceBad, "display_name").s

(***************************************************************************)
(* Properties of the page view, continued.                                 *)
(***************************************************************************)
\* the list loadStations takes from the parsed body
ListOf(body) == IF body.t = "arr" THEN body ELSE Coalesce(Get(body, "items"), JArr(<<>>))

\* loadStations reached `stations = list`: the body was parsed and held a list
LoadSucceeded == raw # NoRaw /\ ListOf(raw).t = "arr"

\* C14: every call of loadStations ends with loading = false; after a
\* failure (network error, non-2xx status, invalid JSON) the station list is
\* empty and errorMsg is not, after a success errorMsg is empty; there is no
\* retry, so one page mount makes exactly one request to the stations proxy.
C14_LoadStations ==
  /\ [](stationFetches <= 1)
  /\ [](loadPc \in {"fetch", "json"} => loading /\ stationFetches = 1)
  /\ [](loadPc = "done" =>
          /\ ~loading
          /\ stationFetches = 1
          /\ IF LoadSucceeded
             THEN errorMsg = "" /\ stations = ListOf(raw).a
             ELSE errorMsg # "" /\ stations = <<>>)
  /\ (loading ~> (loadPc = "done" /\ ~loading))

\* the load ended on a non-2xx answer: nothing was parsed
C14_Witness ==
  /\ loadPc = "done"
  /\ raw = NoRaw
  /\ errorMsg = "HTTP 500 Internal Server Error"
  /\ stations = <<>>
  /\ ~loading
  /\ stationFetches = 1

\* typeFilter with the flag `key` flipped
Flipped(tf, key) == [tf EXCEPT ![key] = ~@]

\* visibleCount after toggleType(key) followed by toggleType(key)
CountAfterTwoToggles(key) ==
  LET once == redrawMarkers(mapMounted, markersGroup, mapLayers, visibleCount,
                            stations, Flipped(typeFilter, key))
  IN  redrawMarkers(mapMounted, once.markersGroup, once.mapLayers, once.visibleCount,
                    stations, Flipped(Flipped(typeFilter, key), key)).visibleCount

\* C15: toggleType(key) flips exactly the flag `key` and leaves the other
\* three flags and the station list alone; resetTypeFilters clears the four
\* flags and leaves the station list alone; toggling one flag twice gives the
\* filter state and the visibleCount there were before, so hidden stations and
\* stations without coordinates stay in the list.
C15_FilterFrame ==
  /\ [](mapMounted => \A key \in FilterKeys :
          /\ Flipped(Flipped(typeFilter, key), key) = typeFilter
          /\ CountAfterTwoToggles(key) = visibleCount)
  /\ [][/\ \A key \in FilterKeys : toggleType(key) =>
             /\ typeFilter'[key] = ~typeFilter[key]
             /\ \A other \in FilterKeys \ {key} : typeFilter'[other] = typeFilter[other]
             /\ stations' = stations
        /\ resetTypeFilters =>
             /\ \A key \in FilterKeys : typeFilter'[key] = FALSE
             /\ stations' = stations]_vars

\* wash and truck stations are hidden; the truck station has no latitude
C15_Witness ==
  /\ stations = <<RawB, RawA>>
  /\ typeFilter = [AllShown EXCEPT !["hideWash"] = TRUE, !["hideTruck"] = TRUE]
  /\ visibleCount = 0

(***************************************************************************)
(* Properties of the search client: Escape, the flags, selection.          *)
(***************************************************************************)
\* C16: Escape on a shown, non-empty list sets showList to false and leaves
\* the typed text q, the results, activeIndex and the map and filter state
\* as they were.
C16_EscapeFrame ==
  [][(showList /\ Len(results) > 0 /\ onKeydown("Escape"))
       => /\ showList' = FALSE
          /\ q' = q
          /\ results' = results
          /\ activeIndex' = activeIndex
          /\ UNCHANGED mapVars]_vars

\* one input, its places listed, and the list closed with the text still typed
C16_Witness ==
  /\ Len(inputTimes) = 1
  /\ q = TermOs
  /\ Len(results) > 0
  /\ ~showList
  /\ outcome = "ok"
  /\ searchMarker = NoLayer

(***************************************************************************)
(* Properties of the normaliser, continued.                                *)
(***************************************************************************)
\* C17: for every raw station record the name normalizeStation returns is not
\* empty: it is the first present of station.name, name, title, stationName,
\* and the fallback string when the record has none of them.
C17_NameNeverEmpty ==
  \A i \in 1..Len(stations) :
     /\ Normalized[i].name # JStr(<<>>)
     /\ Normalized[i].name
          = CoalesceAll(<<Get(Get(stations[i], "station"), "name"),
                          Get(stations[i], "name"), Get(stations[i], "title"),
                          Get(stations[i], "stationName"), JStr(STR_UkjentStasjon)>>)

(***************************************************************************)
(* Invariants of the search client.                                        *)
(***************************************************************************)
\* C18: in every reachable state of the search client activeIndex = -1
\* exactly when results is empty, and 0 <= activeIndex < results.length
\* otherwise, whatever the interleaving of runSearch completions, keys and
\* selections; Enter therefore never commits an entry out of range.
C18_ActiveIndexInRange ==
  /\ (activeIndex = -1) <=> (Len(results) = 0)
  /\ Len(results) > 0 => activeIndex \in 0..(Len(results) - 1)

\* the second call of runSearch listed two places and the second was committed
C18_Witness ==
  /\ lastRun.id = 2
  /\ resultsFrom = 2
  /\ Len(results) = 2
  /\ activeIndex = 1
  /\ ~showList
  /\ q = results[2].display.s

\* C19: while a geocode request started by runSearch is in flight the
\* searching flag is true; it is false only when no request is outstanding,
\* also when two requests overlap.
C19_SearchingWhileInFlight ==
  inflight # {} => searching

\* the text of the search box is a committed display name: no input event has
\* come since selectResult
Committed == q # <<>> /\ q \notin Terms

\* C20: after selectResult the list stays closed and q stays the selected
\* display name until the next input event: no debounce timer pending at the
\* selection and no response in flight reopens the list or starts a query.
C20_SelectionSticks ==
  Committed => /\ ~showList
               /\ lastRun.term \in Terms \cup {<<>>}
               /\ \A r \in inflight : r.term \in Terms

=============================================================================
